---- MODULE Spec2Model ----
(***************************************************************************)
(* Model of etl_connector.py: the retrying fetch (safe_get_json), extract  *)
(* with the /lists detail fetch, transform, load and the run_etl loop.     *)
(*                                                                         *)
(* JSON values are tagged records; a Python dict is a function from key    *)
(* strings to JSON values.  Endpoint paths and URLs are sequences of       *)
(* tokens: the separator "/" is a token of its own and every other token   *)
(* is a run of characters that holds no "/", so strip("/") and             *)
(* replace("/", "_") act on tokens exactly as they act on characters.      *)
(***************************************************************************)
EXTENDS Integers, Sequences, FiniteSets, TLC

VARIABLES
    env,           \* the REQUEST_TIMEOUT setting of the process environment
    selected,      \* run_etl's argument selected_endpoints
    endpoints,     \* run_etl's local `endpoints`
    idx,           \* position of `ep` in endpoints (1-based)
    pc,            \* where the run is
    call,          \* the safe_get_json call in flight
    cont,          \* who called safe_get_json: "top" or "detail"
    lists,         \* extract's local `lists`
    li,            \* position of `item` in lists (1-based)
    detailed,      \* extract's local `detailed`
    raw,           \* run_etl's local `raw`
    transformed,   \* run_etl's local `transformed`
    collection,    \* run_etl's local `collection`
    trace          \* what the run did, in order: the calls and returns of
                   \* safe_get_json, the sleeps of extract and run_etl, the
                   \* calls of transform and load with the store operations
                   \* load made, and the errors run_etl logged

vars == <<env, selected, endpoints, idx, pc, call, cont, lists, li, detailed, raw,
          transformed, collection, trace>>

-----------------------------------------------------------------------------
(* Bounds of the model *)

\* longest endpoint list handed to run_etl
MaxEndpoints == 2

-----------------------------------------------------------------------------
(* JSON values as Python sees them *)

JNull == [t |-> "null"]
JStr(s) == [t |-> "str", s |-> s]
JInt(n) == [t |-> "int", n |-> n]
JBool(b) == [t |-> "bool", b |-> b]
JList(q) == [t |-> "list", items |-> q]
JDict(f) == [t |-> "dict", kv |-> f]

EmptyKV == [k \in {} |-> JNull]
EmptyDict == JDict(EmptyKV)
EmptyList == JList(<<>>)

IsList(v) == v.t = "list"
IsDict(v) == v.t = "dict"
IsNone(v) == v.t = "null"

\* Python's ==, for the comparisons the code makes: bool is a subtype of int
\* (True == 1, False == 0); everything else compares by type and content.
NumOf(v) == IF v.t = "bool" THEN (IF v.b THEN 1 ELSE 0) ELSE v.n
PyEq(a, b) ==
    IF a.t \in {"int", "bool"} /\ b.t \in {"int", "bool"}
    THEN NumOf(a) = NumOf(b)
    ELSE a = b

\* `v in [x1, ..., xn]`
PyIn(v, xs) == \E i \in 1..Len(xs) : PyEq(v, xs[i])

\* Python truthiness of a JSON value
Truthy(v) ==
    CASE v.t = "null" -> FALSE
      [] v.t = "bool" -> v.b
      [] v.t = "int"  -> v.n # 0
      [] v.t = "str"  -> v.s # ""
      [] v.t = "list" -> v.items # <<>>
      [] v.t = "dict" -> DOMAIN v.kv # {}

\* `a or b`
PyOr(a, b) == IF Truthy(a) THEN a ELSE b

\* dict.get(key): the value, or None when the key is absent
DictGet(d, k) == IF k \in DOMAIN d.kv THEN d.kv[k] ELSE JNull

\* what an f-string makes of a value
PyStr(v) ==
    CASE v.t = "int"  -> ToString(v.n)
      [] v.t = "str"  -> v.s
      [] v.t = "bool" -> (IF v.b THEN "True" ELSE "False")
      [] v.t = "null" -> "None"
      [] v.t = "list" -> ToString(v.items)
      [] v.t = "dict" -> ToString(v.kv)

-----------------------------------------------------------------------------
(* Strings as token sequences *)

RECURSIVE LStrip(_)
LStrip(s) == IF s # <<>> /\ Head(s) = "/" THEN LStrip(Tail(s)) ELSE s

RECURSIVE RStrip(_)
RStrip(s) ==
    IF s # <<>> /\ s[Len(s)] = "/" THEN RStrip(SubSeq(s, 1, Len(s) - 1)) ELSE s

\* str.strip("/")
Strip(s) == LStrip(RStrip(s))

\* str.replace("/", "_")
Replace(s) == [i \in 1..Len(s) |-> IF s[i] = "/" THEN "_" ELSE s[i]]

BASE_URL == <<"https://api.filterlists.com">>

ENDPOINTS == << <<"/", "languages">>, <<"/", "licenses">>, <<"/", "maintainers">>,
               <<"/", "software">>, <<"/", "syntaxes">>, <<"/", "tags">> >>

EP_LISTS == <<"/", "lists">>

\* mutant: the empty name is not replaced by "root"
endpoint_to_collection_no_default(endpoint) ==
    Replace(Strip(endpoint)) \o <<"_raw">>

endpoint_to_collection(endpoint) ==
    LET name == Replace(Strip(endpoint))
    IN  (IF name = <<>> THEN <<"root">> ELSE name) \o <<"_raw">>

-----------------------------------------------------------------------------
(* transform *)

\* the values clean_record drops: [None, "", [], {}, "null"]
CLEAN_DROPPED == <<JNull, JStr(""), EmptyList, EmptyDict, JStr("null")>>

\* mutant: the filter written as `if v`, which also drops 0 and False
clean_record_truthy(d) ==
    JDict([k \in {j \in DOMAIN d.kv : Truthy(d.kv[j])} |-> d.kv[k]])

\* {k: v for k, v in d.items() if v not in [None, "", [], {}, "null"]}
clean_record(d) ==
    JDict([k \in {j \in DOMAIN d.kv : ~PyIn(d.kv[j], CLEAN_DROPPED)} |-> d.kv[k]])

\* rec.get("id") or rec.get("_id")
source_id(rec) == PyOr(DictGet(rec, "id"), DictGet(rec, "_id"))

\* datetime.isoformat(): the text form of the captured time
IsoFormat(now) == ToString(now)

\* the endpoint-specific convenience fields
Flatten(endpoint, rec) ==
    CASE endpoint = <<"/", "languages">> ->
            [name |-> DictGet(rec, "name"), iso_code |-> DictGet(rec, "iso6391")]
      [] endpoint = <<"/", "licenses">> ->
            [license_name |-> DictGet(rec, "name"), license_url |-> DictGet(rec, "url")]
      [] endpoint = <<"/", "maintainers">> ->
            [maintainer_name |-> DictGet(rec, "name"),
             maintainer_url |-> DictGet(rec, "url")]
      [] endpoint = <<"/", "software">> ->
            [software_name |-> DictGet(rec, "name"),
             software_home |-> DictGet(rec, "homeUrl")]
      [] endpoint = <<"/", "syntaxes">> -> [syntax_name |-> DictGet(rec, "name")]
      [] endpoint = <<"/", "tags">> -> [tag_name |-> DictGet(rec, "name")]
      [] OTHER -> EmptyKV

\* mutant: the convenience fields are read from the record before cleaning
MakeDoc_flatten_raw(rec0, i, endpoint, now) ==
    LET rec == clean_record(rec0)
    IN  [_source_id |-> source_id(rec),
         record_index |-> i,
         endpoint |-> Strip(endpoint),
         ingestion_time |-> now,
         schema_version |-> 1,
         source |-> [api_base |-> BASE_URL,
                     endpoint |-> endpoint,
                     retrieved_at |-> IsoFormat(now)],
         data |-> rec]
        @@ Flatten(endpoint, rec0)

\* the document built for the i-th record (i counts from 1)
MakeDoc(rec0, i, endpoint, now) ==
    LET rec == clean_record(rec0)
    IN  [_source_id |-> source_id(rec),
         record_index |-> i,
         endpoint |-> Strip(endpoint),
         ingestion_time |-> now,
         schema_version |-> 1,
         source |-> [api_base |-> BASE_URL,
                     endpoint |-> endpoint,
                     retrieved_at |-> IsoFormat(now)],
         data |-> rec]
        @@ Flatten(endpoint, rec)

\* mutant: datetime.now() read inside the loop, once per record
transform_now_per_record(records, endpoint, now) ==
    IF \E i \in 1..Len(records) : ~IsDict(records[i])
    THEN [raised |-> TRUE, docs |-> <<>>]
    ELSE [raised |-> FALSE,
          docs |-> [i \in 1..Len(records) |->
                       MakeDoc(records[i], i, endpoint, now + i - 1)]]

\* mutant: a record that is no dict is skipped and the others are kept
transform_skips_record(records, endpoint, now) ==
    LET kept == SelectSeq(records, IsDict)
    IN  [raised |-> FALSE,
         docs |-> [i \in 1..Len(kept) |-> MakeDoc(kept[i], i, endpoint, now)]]

\* transform(records, endpoint) with `now` the time captured at its start.
\* clean_record calls d.items(): a record that is no dict raises
\* AttributeError and the whole call raises with it.
transform(records, endpoint, now) ==
    IF \E i \in 1..Len(records) : ~IsDict(records[i])
    THEN [raised |-> TRUE, docs |-> <<>>]
    ELSE [raised |-> FALSE,
          docs |-> [i \in 1..Len(records) |-> MakeDoc(records[i], i, endpoint, now)]]

-----------------------------------------------------------------------------
(* Program constants *)

\* the environment without, and with, a REQUEST_TIMEOUT variable
EnvUnset == [set |-> FALSE, text |-> ""]
EnvSet(text) == [set |-> TRUE, text |-> text]
EnvSettings == {EnvUnset, EnvSet("5"), EnvSet("30")}

\* float(text), for the texts the model uses
ParseFloat(text) ==
    CASE text = "5" -> 5
      [] text = "10" -> 10
      [] text = "30" -> 30

\* os.getenv("REQUEST_TIMEOUT", "10")
getenv_REQUEST_TIMEOUT(e) == IF e.set THEN e.text ELSE "10"

\* the first binding of REQUEST_TIMEOUT:
\* float(os.getenv("REQUEST_TIMEOUT", "10"))
REQUEST_TIMEOUT_from_env(e) == ParseFloat(getenv_REQUEST_TIMEOUT(e))

\* range(3) in safe_get_json
MAX_ATTEMPTS == 3
\* timeout=REQUEST_TIMEOUT reads the module's global when safe_get_json runs:
\* the second binding, REQUEST_TIMEOUT = 10, which replaced the first
REQUEST_TIMEOUT == 10
\* time.sleep(2), time.sleep(0.1), time.sleep(0.2), in tenths of a second
SLEEP_RETRY == 20
SLEEP_DETAIL == 1
SLEEP_POLITE == 2

-----------------------------------------------------------------------------
(* The remote API and the store are outside the program: the model draws the
   API's answers from the sets below, lets insert_many succeed or raise, and
   records the operations the program issues *)

R_en == JDict([id |-> JInt(1), name |-> JStr("English"), iso6391 |-> JStr("en")])
R_blank == JDict([id |-> JInt(2), name |-> JStr(""), iso6391 |-> JNull])
R_zero == JDict([id |-> JInt(0), name |-> JStr("x")])
R_zero_alt == JDict([id |-> JInt(0), _id |-> JInt(5)])
R_alt == JDict([_id |-> JInt(7), tags |-> EmptyList, meta |-> EmptyDict,
                note |-> JStr("null"), flag |-> JBool(FALSE), count |-> JInt(0),
                nested |-> JDict([a |-> JNull]), items |-> JList(<<JNull>>)])
R_noid == JDict([name |-> JStr("n")])

L_42 == JDict([id |-> JInt(42), title |-> JStr("list view")])
L_43 == JDict([id |-> JInt(43)])
L_noid == JDict([title |-> JStr("no id")])
D_X == JDict([id |-> JInt(42), name |-> JStr("X")])
D_43 == JDict([id |-> JInt(43), name |-> JStr("Y")])

LanguageResponses ==
    { JList(<<R_en, R_blank>>), JList(<<R_zero, R_alt>>), JList(<<>>) }

TagResponses ==
    { JList(<<R_zero_alt>>), JDict([data |-> JList(<<R_noid>>)]),
      JDict([data |-> JStr("x")]), JStr("oops"), JNull, JList(<<R_en, JInt(5)>>) }

ListViewResponses ==
    { JList(<<L_42, L_noid>>), JList(<<L_43, L_42>>),
      JDict([data |-> JList(<<L_42>>)]), JList(<<L_noid, JStr("x")>>) }

\* bodies of /lists/42 and of /lists/43
DetailResponses == { D_X, JNull, JList(<<JInt(1)>>) }
DetailResponses43 == { D_43 }

\* bodies of the other endpoints of ENDPOINTS, and of any other path
DefaultResponses == { JList(<<R_en>>) }
OtherResponses == { JList(<<>>) }

BaseOf == RStrip(BASE_URL)

\* the JSON bodies the API may answer a GET of url with
ApiResponses(url) ==
    LET path == SubSeq(url, Len(BaseOf) + 1, Len(url))
    IN  CASE path = <<"/", "languages">> -> LanguageResponses
          [] path = <<"/", "tags">> -> TagResponses
          [] path = EP_LISTS -> ListViewResponses
          [] path = <<"/", "lists", "/", "43">> -> DetailResponses43
          [] Len(path) = 4 /\ SubSeq(path, 1, 3) = <<"/", "lists", "/">> ->
                DetailResponses
          [] \E j \in 1..Len(ENDPOINTS) : path = ENDPOINTS[j] -> DefaultResponses
          [] OTHER -> OtherResponses

\* how an attempt can fail: requests.exceptions.Timeout, or another
\* RequestException (a transport error, or raise_for_status on an HTTP error)
FailureKinds == {"timeout", "transport", "http_status"}

SelectableEndpoints ==
    { <<"/", "languages">>, <<"/", "tags">>, EP_LISTS,
      <<"/", "a", "/", "b">>, <<"/">>, <<>> }

RECURSIVE SeqsUpTo(_, _)
SeqsUpTo(S, n) ==
    IF n = 0 THEN {<<>>}
    ELSE LET shorter == SeqsUpTo(S, n - 1)
         IN  shorter \cup {Append(q, x) : q \in shorter, x \in S}

SelectedLists == SeqsUpTo(SelectableEndpoints, MaxEndpoints)

-----------------------------------------------------------------------------
(* State *)

\* a safe_get_json call: the attempts made so far, the seconds slept, the
\* timeout of the last attempt, how the last attempt ended, the body it
\* decoded, and the value returned
NoCall == [url |-> <<>>, pos |-> 0, attempt |-> 0, waited |-> 0, timeout |-> 0,
           status |-> "idle", last |-> "none", body |-> JNull, ret |-> JNull]

ep == endpoints[idx]

\* the time datetime.now() reads: a logical clock that ticks with every event
Now == Len(trace)

\* what a run starts from, apart from its inputs
InitLocals ==
    /\ endpoints = <<>>
    /\ idx = 0
    /\ pc = "start"
    /\ call = NoCall
    /\ cont = "none"
    /\ lists = <<>>
    /\ li = 0
    /\ detailed = <<>>
    /\ raw = <<>>
    /\ transformed = <<>>
    /\ collection = <<>>
    /\ trace = <<>>

\* runs of one endpoint under every environment setting
InitConfig ==
    /\ env \in EnvSettings
    /\ selected \in {q \in SelectedLists : Len(q) = 1}
    /\ InitLocals

\* runs of every endpoint list, the environment holding no setting
Init ==
    /\ env = EnvUnset
    /\ selected \in SelectedLists
    /\ InitLocals

-----------------------------------------------------------------------------
(* safe_get_json *)

\* a call of safe_get_json(url) begins
NewCall(url, pos) ==
    [url |-> url, pos |-> pos, attempt |-> 0, waited |-> 0, timeout |-> 0,
     status |-> "running", last |-> "none", body |-> JNull, ret |-> JNull]

\* the events of a call and of its return to extract; pos is 0 for the
\* endpoint's own URL and the item's position for a detail URL
FetchEvent(c) == [e |-> "fetch", i |-> idx, pos |-> c.pos, url |-> c.url]
FetchedEvent(c) == [e |-> "fetched", i |-> idx, pos |-> c.pos,
                    ok |-> (c.last = "ok"), ret |-> c.ret]

\* one loop iteration whose session.get, raise_for_status and resp.json()
\* all succeed: the decoded body is returned at once
AttemptOk ==
    /\ pc = "fetch"
    /\ call.status = "running"
    /\ call.attempt < MAX_ATTEMPTS
    /\ \E resp \in ApiResponses(call.url) :
          call' = [call EXCEPT !.attempt = @ + 1, !.timeout = REQUEST_TIMEOUT,
                               !.status = "returned", !.last = "ok",
                               !.body = resp, !.ret = resp]
    /\ UNCHANGED <<env, selected, endpoints, idx, pc, cont, lists, li, detailed, raw,
                   transformed, collection, trace>>

\* one loop iteration that raises Timeout or another RequestException: a
\* warning is logged and the loop sleeps 2 seconds
AttemptFail ==
    /\ pc = "fetch"
    /\ call.status = "running"
    /\ call.attempt < MAX_ATTEMPTS
    /\ \E kind \in FailureKinds :
          call' = [call EXCEPT !.attempt = @ + 1, !.timeout = REQUEST_TIMEOUT,
                               !.waited = @ + SLEEP_RETRY, !.last = kind]
    /\ UNCHANGED <<env, selected, endpoints, idx, pc, cont, lists, li, detailed, raw,
                   transformed, collection, trace>>

\* mutant: the exhausted call returns None
GiveUpNone ==
    /\ pc = "fetch"
    /\ call.status = "running"
    /\ call.attempt >= MAX_ATTEMPTS
    /\ call' = [call EXCEPT !.status = "returned", !.ret = JNull]
    /\ UNCHANGED <<env, selected, endpoints, idx, pc, cont, lists, li, detailed, raw,
                   transformed, collection, trace>>

\* mutant: the exhausted loop is entered again instead of returning
GiveUp_starts_over ==
    /\ pc = "fetch"
    /\ call.status = "running"
    /\ call.attempt >= MAX_ATTEMPTS
    /\ call' = [call EXCEPT !.attempt = 0, !.waited = 0]
    /\ UNCHANGED <<env, selected, endpoints, idx, pc, cont, lists, li, detailed, raw,
                   transformed, collection, trace>>

\* the loop is over: the error is logged and {} returned
GiveUp ==
    /\ pc = "fetch"
    /\ call.status = "running"
    /\ call.attempt >= MAX_ATTEMPTS
    /\ call' = [call EXCEPT !.status = "returned", !.ret = EmptyDict]
    /\ UNCHANGED <<env, selected, endpoints, idx, pc, cont, lists, li, detailed, raw,
                   transformed, collection, trace>>

-----------------------------------------------------------------------------
(* extract *)

\* mutant: a mapping is always wrapped, its 'data' key is not looked at
extract_other_wraps(data) ==
    IF IsList(data) THEN data.items
    ELSE IF IsDict(data) THEN <<data>>
    ELSE <<>>

\* the branch of extract for every endpoint but /lists
extract_other(data) ==
    IF IsList(data) THEN data.items
    ELSE IF IsDict(data)
         THEN IF "data" \in DOMAIN data.kv /\ IsList(data.kv["data"])
              THEN data.kv["data"].items
              ELSE <<data>>
         ELSE <<>>

\* extract(ep) up to its call of safe_get_json(url)
ExtractCall ==
    /\ pc = "extract"
    /\ call' = NewCall(BaseOf \o ep, 0)
    /\ cont' = "top"
    /\ pc' = "fetch"
    /\ trace' = Append(trace, FetchEvent(NewCall(BaseOf \o ep, 0)))
    /\ UNCHANGED <<env, selected, endpoints, idx, lists, li, detailed, raw,
                   transformed, collection>>

\* extract from the return of the top-level fetch: `data is None`, the /lists
\* branch up to its loop, or the shape handling of the other endpoints
ExtractTop ==
    /\ pc = "fetch"
    /\ call.status = "returned"
    /\ cont = "top"
    /\ LET data == call.ret
       IN  IF IsNone(data)
           THEN /\ raw' = <<>>
                /\ pc' = "transform"
                /\ UNCHANGED <<lists, li>>
           ELSE IF ep = EP_LISTS
           THEN /\ lists' = (IF IsList(data) THEN data.items ELSE <<>>)
                /\ li' = 1
                /\ pc' = "lists_loop"
                /\ raw' = raw
           ELSE /\ raw' = extract_other(data)
                /\ pc' = "transform"
                /\ UNCHANGED <<lists, li>>
    /\ call' = NoCall
    /\ cont' = "none"
    /\ trace' = Append(trace, FetchedEvent(call))
    /\ UNCHANGED <<env, selected, endpoints, idx, detailed, transformed, collection>>

\* f"{BASE_URL.rstrip('/')}/lists/{list_id}"
detail_url(list_id) == BaseOf \o <<"/", "lists", "/", PyStr(list_id)>>

\* mutant: an item without an id is skipped instead of kept
ListsItem_drops_item ==
    /\ pc = "lists_loop"
    /\ li <= Len(lists)
    /\ LET item == lists[li]
       IN  IF ~IsDict(item)
           THEN /\ pc' = "except"
                /\ UNCHANGED <<call, cont, li, detailed, trace>>
           ELSE IF IsNone(DictGet(item, "id"))
           THEN /\ li' = li + 1
                /\ UNCHANGED <<pc, call, cont, detailed, trace>>
           ELSE /\ call' = NewCall(detail_url(DictGet(item, "id")), li)
                /\ cont' = "detail"
                /\ pc' = "fetch"
                /\ trace' = Append(trace,
                                   FetchEvent(NewCall(detail_url(DictGet(item, "id")), li)))
                /\ UNCHANGED <<li, detailed>>
    /\ UNCHANGED <<env, selected, endpoints, idx, lists, raw, transformed,
                   collection>>

\* one iteration of the /lists loop up to its detail fetch: item.get("id")
\* raises AttributeError on an item that is no dict; an item without an id is
\* kept and the loop continues
ListsItem ==
    /\ pc = "lists_loop"
    /\ li <= Len(lists)
    /\ LET item == lists[li]
       IN  IF ~IsDict(item)
           THEN /\ pc' = "except"
                /\ UNCHANGED <<call, cont, li, detailed, trace>>
           ELSE IF IsNone(DictGet(item, "id"))
           THEN /\ detailed' = Append(detailed, item)
                /\ li' = li + 1
                /\ UNCHANGED <<pc, call, cont, trace>>
           ELSE /\ call' = NewCall(detail_url(DictGet(item, "id")), li)
                /\ cont' = "detail"
                /\ pc' = "fetch"
                /\ trace' = Append(trace,
                                   FetchEvent(NewCall(detail_url(DictGet(item, "id")), li)))
                /\ UNCHANGED <<li, detailed>>
    /\ UNCHANGED <<env, selected, endpoints, idx, lists, raw, transformed, collection>>

\* mutant: the list-view item is kept whatever the detail fetch returned
detail_or_item_keeps_item(detail, item) == item

\* detail if detail is not None else item
detail_or_item(detail, item) == IF ~IsNone(detail) THEN detail ELSE item

\* the rest of the iteration, from the return of the detail fetch: the record
\* is appended and the loop sleeps 0.1 seconds
ListsDetail ==
    /\ pc = "fetch"
    /\ call.status = "returned"
    /\ cont = "detail"
    /\ detailed' = Append(detailed, detail_or_item(call.ret, lists[li]))
    /\ trace' = trace \o <<FetchedEvent(call),
                            [e |-> "sleep", i |-> idx, d |-> SLEEP_DETAIL]>>
    /\ li' = li + 1
    /\ pc' = "lists_loop"
    /\ call' = NoCall
    /\ cont' = "none"
    /\ UNCHANGED <<env, selected, endpoints, idx, lists, raw, transformed, collection>>

\* the loop is over: return detailed
ListsReturn ==
    /\ pc = "lists_loop"
    /\ li > Len(lists)
    /\ raw' = detailed
    /\ lists' = <<>>
    /\ li' = 0
    /\ detailed' = <<>>
    /\ pc' = "transform"
    /\ UNCHANGED <<env, selected, endpoints, idx, call, cont, transformed,
                   collection, trace>>

-----------------------------------------------------------------------------
(* run_etl, transform and load *)

\* endpoints = selected_endpoints if selected_endpoints else ENDPOINTS
resolve_endpoints(sel) == IF sel # <<>> THEN sel ELSE ENDPOINTS

Start ==
    /\ pc = "start"
    /\ endpoints' = resolve_endpoints(selected)
    /\ idx' = 1
    /\ pc' = "extract"
    /\ UNCHANGED <<env, selected, call, cont, lists, li, detailed, raw, transformed,
                   collection, trace>>

\* transformed = transform(raw, ep); collection = endpoint_to_collection(ep)
Transform ==
    /\ pc = "transform"
    /\ LET r == transform(raw, ep, Now)
       IN  IF r.raised
           THEN /\ pc' = "except"
                /\ UNCHANGED <<transformed, collection, trace>>
           ELSE /\ transformed' = r.docs
                /\ collection' = endpoint_to_collection(ep)
                /\ pc' = "load"
                /\ trace' = Append(trace, [e |-> "transform", i |-> idx,
                                           n |-> Len(r.docs)])
    /\ UNCHANGED <<env, selected, endpoints, idx, call, cont, lists, li, detailed,
                   raw>>

\* mutant: the collection name is computed once, from the first endpoint
LoadEvent_first_collection(accesses, inserted, raised) ==
    [e |-> "load", i |-> idx, coll |-> endpoint_to_collection(endpoints[1]),
     docs |-> transformed, accesses |-> accesses, inserted |-> inserted,
     raised |-> raised]

\* a call load(docs, collection_name) that returned: the db[...] accesses it
\* made, the batches it gave to insert_many, and whether insert_many raised
LoadEvent(accesses, inserted, raised) ==
    [e |-> "load", i |-> idx, coll |-> collection, docs |-> transformed,
     accesses |-> accesses, inserted |-> inserted, raised |-> raised]

\* mutant: load without its early return; insert_many([]) raises and the
\* error is logged
LoadEmptyInserts ==
    /\ pc = "load"
    /\ transformed = <<>>
    /\ trace' = Append(trace, LoadEvent(1, <<transformed>>, TRUE))
    /\ pc' = "polite"
    /\ UNCHANGED <<env, selected, endpoints, idx, call, cont, lists, li, detailed,
                   raw, transformed, collection>>

\* load with no documents: logs and returns
LoadEmpty ==
    /\ pc = "load"
    /\ transformed = <<>>
    /\ trace' = Append(trace, LoadEvent(0, <<>>, FALSE))
    /\ pc' = "polite"
    /\ UNCHANGED <<env, selected, endpoints, idx, call, cont, lists, li, detailed,
                   raw, transformed, collection>>

\* load whose insert_many succeeds
LoadInsertOk ==
    /\ pc = "load"
    /\ transformed # <<>>
    /\ trace' = Append(trace, LoadEvent(1, <<transformed>>, FALSE))
    /\ pc' = "polite"
    /\ UNCHANGED <<env, selected, endpoints, idx, call, cont, lists, li, detailed,
                   raw, transformed, collection>>

\* mutant: a failed insert_many is tried once more
LoadInsertFailRetries ==
    /\ pc = "load"
    /\ transformed # <<>>
    /\ trace' = Append(trace, LoadEvent(1, <<transformed, transformed>>, TRUE))
    /\ pc' = "polite"
    /\ UNCHANGED <<env, selected, endpoints, idx, call, cont, lists, li, detailed,
                   raw, transformed, collection>>

\* load whose insert_many raises: the error is logged and load returns
LoadInsertFail ==
    /\ pc = "load"
    /\ transformed # <<>>
    /\ trace' = Append(trace, LoadEvent(1, <<transformed>>, TRUE))
    /\ pc' = "polite"
    /\ UNCHANGED <<env, selected, endpoints, idx, call, cont, lists, li, detailed,
                   raw, transformed, collection>>

\* the for loop moves on: the next endpoint, or the end of run_etl
LoopNext ==
    /\ idx' = idx + 1
    /\ pc' = (IF idx < Len(endpoints) THEN "extract" ELSE "done")
    /\ call' = NoCall
    /\ cont' = "none"
    /\ lists' = <<>>
    /\ li' = 0
    /\ detailed' = <<>>
    /\ raw' = <<>>
    /\ transformed' = <<>>
    /\ collection' = <<>>

\* time.sleep(0.2) after load returned
Polite ==
    /\ pc = "polite"
    /\ trace' = Append(trace, [e |-> "sleep", i |-> idx, d |-> SLEEP_POLITE])
    /\ LoopNext
    /\ UNCHANGED <<env, selected, endpoints>>

\* mutant: the error leaves the loop and ends run_etl
ExceptAborts ==
    /\ pc = "except"
    /\ trace' = Append(trace, [e |-> "unhandled", i |-> idx])
    /\ pc' = "done"
    /\ UNCHANGED <<env, selected, endpoints, idx, call, cont, lists, li, detailed,
                   raw, transformed, collection>>

\* except Exception: logger.exception(...)
Except ==
    /\ pc = "except"
    /\ trace' = Append(trace, [e |-> "unhandled", i |-> idx])
    /\ LoopNext
    /\ UNCHANGED <<env, selected, endpoints>>

Next ==
    \/ Start
    \/ ExtractCall
    \/ AttemptOk
    \/ AttemptFail
    \/ GiveUp
    \/ ExtractTop
    \/ ListsItem
    \/ ListsDetail
    \/ ListsReturn
    \/ Transform
    \/ LoadEmpty
    \/ LoadInsertOk
    \/ LoadInsertFail
    \/ Polite
    \/ Except

Spec == Init /\ [][Next]_vars

\* the runs of one endpoint, with the environment setting as an input
SpecConfig == InitConfig /\ [][Next]_vars

\* run_etl is one thread of straight-line code whose blocking calls all end
\* (session.get by its timeout, time.sleep, insert_many by the driver's
\* timeouts): a step that can be taken is taken
FairSpec == Spec /\ WF_vars(Next)

-----------------------------------------------------------------------------
(* Reading the trace *)

\* the positions of the events of one kind that endpoint i caused
EventsOf(kind, i) == {k \in DOMAIN trace : trace[k].e = kind /\ trace[k].i = i}

\* the returns of safe_get_json to extract
Returns == {k \in DOMAIN trace : trace[k].e = "fetched"}

\* the value the fetch of endpoint i's own URL returned
TopReturn(i) ==
    trace[CHOOSE k \in EventsOf("fetched", i) : trace[k].pos = 0].ret

\* run_etl logged an unhandled error for endpoint i
Unhandled(i) == EventsOf("unhandled", i) # {}

\* extract has returned `raw` to run_etl for the current endpoint
Extracted == pc = "transform"

\* transform has returned `transformed` to run_etl for the current endpoint
Transformed == pc = "load"

-----------------------------------------------------------------------------
(* Claims *)

\* C1: a call of safe_get_json makes at most 3 attempts; it returns the body
\* decoded by the first attempt that succeeds, having made no attempt after
\* it (the attempts made are the failed ones plus that one); it goes on only
\* after a failure; and when 3 attempts failed it returns the empty mapping
\* {} to its caller instead of raising.
C1_BoundedRetry ==
    /\ call.attempt <= 3
    /\ (call.status = "running" /\ call.attempt > 0) => call.last \in FailureKinds
    /\ call.status = "returned" =>
          /\ pc = "fetch"
          /\ IF call.last = "ok"
             THEN /\ call.ret = call.body
                  /\ call.body \in ApiResponses(call.url)
                  /\ call.attempt * SLEEP_RETRY = call.waited + SLEEP_RETRY
             ELSE /\ call.last \in FailureKinds
                  /\ call.attempt = 3
                  /\ call.waited = 3 * SLEEP_RETRY
                  /\ call.ret = EmptyDict

\* C1 witness: a call has returned after three failed attempts
C1_Witness ==
    /\ call.status = "returned"
    /\ call.last \in FailureKinds
    /\ call.attempt = 3
    /\ call.ret = EmptyDict

\* C2: when run_etl has ended, every endpoint of the list was fetched, and
\* for every endpoint A whose processing raised, every endpoint after A was
\* extracted and, unless its own processing raised, transformed and loaded:
\* the error of A did not leave run_etl.
C2_FaultIsolation ==
    pc = "done" =>
        \A a \in 1..Len(endpoints) :
            /\ EventsOf("fetch", a) # {}
            /\ Unhandled(a) =>
                  \A b \in (a + 1)..Len(endpoints) :
                      /\ EventsOf("fetched", b) # {}
                      /\ \/ Unhandled(b)
                         \/ /\ EventsOf("transform", b) # {}
                            /\ EventsOf("load", b) # {}

\* C2 witness: extract raised for a /lists endpoint (an item that is no
\* mapping), and the endpoint after it was loaded with a successful insert
C2_Witness ==
    /\ pc = "done"
    /\ \E a \in 1..(Len(endpoints) - 1) :
          /\ endpoints[a] = EP_LISTS
          /\ Unhandled(a)
          /\ EventsOf("fetched", a) # {}
          /\ TopReturn(a) = JList(<<L_noid, JStr("x")>>)
          /\ \E k \in EventsOf("load", a + 1) :
                trace[k].inserted # <<>> /\ ~trace[k].raised

\* C3: in extract("/lists"), for every item with an identifier whose detail
\* fetch failed (safe_get_json gave up), the record extract returns at that
\* item's position is the list-view item.
C3_FailedDetailKeepsItem ==
    (Extracted /\ ep = EP_LISTS) =>
        \A k \in EventsOf("fetched", idx) :
            (trace[k].pos > 0 /\ ~trace[k].ok) =>
                raw[trace[k].pos] = TopReturn(idx).items[trace[k].pos]

\* C4: in extract("/lists"), for every item with an identifier whose detail
\* fetch succeeded with a non-empty record, the record extract returns at
\* that item's position is the detail result.
C4_DetailReplacesItem ==
    (Extracted /\ ep = EP_LISTS) =>
        \A k \in EventsOf("fetched", idx) :
            (/\ trace[k].pos > 0
             /\ trace[k].ok
             /\ IsDict(trace[k].ret)
             /\ trace[k].ret # EmptyDict) =>
                raw[trace[k].pos] = trace[k].ret

\* C4 witness: extract returned for /lists after a detail fetch that gave a
\* non-empty record different from the list-view item
C4_Witness ==
    /\ Extracted
    /\ ep = EP_LISTS
    /\ \E k \in EventsOf("fetched", idx) :
          /\ trace[k].pos > 0
          /\ trace[k].ok
          /\ trace[k].ret = D_X
          /\ TopReturn(idx).items[trace[k].pos] = L_42

\* C5: when the fetch of an endpoint's own URL gave up, extract returns no
\* record for that endpoint, and the run gives load no document and makes no
\* insert for it.
C5_ExhaustedIsNoData ==
    \A k \in Returns :
        (trace[k].pos = 0 /\ ~trace[k].ok) =>
            /\ (Extracted /\ idx = trace[k].i) => raw = <<>>
            /\ \A m \in EventsOf("load", trace[k].i) :
                  trace[m].docs = <<>> /\ trace[m].inserted = <<>>

\* C6: the batch transform returns has one document per input record, in
\* input order (the document's data holds only pairs of its record), with
\* record_index 1, 2, ..., n, and one ingestion_time and one
\* source.retrieved_at for the whole batch.
C6_BatchIndexAndTime ==
    Transformed =>
        /\ Len(transformed) = Len(raw)
        /\ \A j \in DOMAIN transformed :
              /\ transformed[j].record_index = j
              /\ \A key \in DOMAIN transformed[j].data.kv :
                    /\ key \in DOMAIN raw[j].kv
                    /\ transformed[j].data.kv[key] = raw[j].kv[key]
        /\ \A j, k \in DOMAIN transformed :
              /\ transformed[j].ingestion_time = transformed[k].ingestion_time
              /\ transformed[j].source.retrieved_at
                    = transformed[k].source.retrieved_at

\* C6 witness: transform returned a batch of two documents made from two
\* different records
C6_Witness ==
    /\ Transformed
    /\ Len(transformed) = 2
    /\ raw[1] # raw[2]

\* the values the claim names: null, "", [], {} and the string "null"
EmptyValues == {JNull, JStr(""), EmptyList, EmptyDict, JStr("null")}

\* C7: the cleaned record of every document holds exactly the top-level pairs
\* of the raw record whose value is none of null, "", [], {} and "null", each
\* with its value unchanged (so 0 and false stay, and so does what is nested
\* in a value that stays).
C7_CleanRecord ==
    Transformed =>
        \A j \in DOMAIN transformed :
            /\ DOMAIN transformed[j].data.kv
                  = {key \in DOMAIN raw[j].kv : raw[j].kv[key] \notin EmptyValues}
            /\ \A key \in DOMAIN transformed[j].data.kv :
                  transformed[j].data.kv[key] = raw[j].kv[key]

\* C7 witness: a record with every kind of empty value, with 0 and false, and
\* with nulls nested in values that stay, was cleaned
C7_Witness ==
    /\ Transformed
    /\ \E j \in DOMAIN transformed :
          /\ raw[j] = R_alt
          /\ DOMAIN transformed[j].data.kv
                = {"_id", "flag", "count", "nested", "items"}

\* C8: the document's _source_id is the cleaned record's `id` when it has the
\* key `id`, else its `_id` when it has the key `_id`, else null.
C8_SourceId ==
    Transformed =>
        \A j \in DOMAIN transformed :
            LET rec == transformed[j].data.kv
            IN  transformed[j]._source_id =
                    (IF "id" \in DOMAIN rec THEN rec["id"]
                     ELSE IF "_id" \in DOMAIN rec THEN rec["_id"]
                     ELSE JNull)

\* a call of load that was given no document
IsEmptyLoad(k) == trace[k].e = "load" /\ trace[k].docs = <<>>

\* a call of load that was given a batch
IsBatchLoad(k) == trace[k].e = "load" /\ trace[k].docs # <<>>

\* event k + 1 is the sleep of run_etl that follows load's return
PoliteFollows(k) ==
    /\ k < Len(trace)
    /\ trace[k + 1].e = "sleep"
    /\ trace[k + 1].i = trace[k].i
    /\ trace[k + 1].d = SLEEP_POLITE

\* C9: a call of load with no document accesses no collection and makes no
\* insert, and returns to run_etl, which goes on to its sleep.
C9_EmptyLoadNoStoreOps ==
    \A k \in DOMAIN trace :
        IsEmptyLoad(k) =>
            /\ trace[k].accesses = 0
            /\ trace[k].inserted = <<>>
            /\ ~trace[k].raised
            /\ IF k = Len(trace) THEN pc = "polite" ELSE PoliteFollows(k)

\* C9 witness: load has just returned from a call with no document
C9_Witness ==
    /\ pc = "polite"
    /\ trace # <<>>
    /\ IsEmptyLoad(Len(trace))

\* C10: a call of load with a batch makes exactly one insert_many call, of
\* the whole batch, into the collection named after its endpoint; whether or
\* not that insert raised, load returns to run_etl, which goes on to its
\* sleep and the next endpoint.
C10_OneBulkInsert ==
    \A k \in DOMAIN trace :
        IsBatchLoad(k) =>
            /\ trace[k].accesses = 1
            /\ trace[k].inserted = <<trace[k].docs>>
            /\ trace[k].coll = endpoint_to_collection(endpoints[trace[k].i])
            /\ IF k = Len(trace)
               THEN pc = "polite" /\ trace[k].docs = transformed
               ELSE PoliteFollows(k)
            /\ (pc = "done" /\ trace[k].i < Len(endpoints)) =>
                  EventsOf("fetch", trace[k].i + 1) # {}

\* C10 witness: an insert raised, and the run went on to fetch the next
\* endpoint
C10_Witness ==
    \E k \in DOMAIN trace :
        /\ IsBatchLoad(k)
        /\ trace[k].raised
        /\ Len(trace[k].docs) = 2
        /\ PoliteFollows(k)
        /\ EventsOf("fetch", trace[k].i + 1) # {}

\* the positions of the tokens of a path that are not the separator
NonSlash(path) == {j \in DOMAIN path : path[j] # "/"}

Min(S) == CHOOSE x \in S : \A y \in S : x <= y
Max(S) == CHOOSE x \in S : \A y \in S : x >= y

\* the name the claim gives a path: what lies between its first and its last
\* token that is no separator, with every separator in between turned into
\* "_", or "root" when the path holds nothing but separators; then "_raw"
NamedCollection(path) ==
    IF NonSlash(path) = {} THEN <<"root", "_raw">>
    ELSE LET first == Min(NonSlash(path))
             last == Max(NonSlash(path))
         IN  [j \in 1..(last - first + 1) |->
                 IF path[first + j - 1] = "/" THEN "_" ELSE path[first + j - 1]]
             \o <<"_raw">>

\* C11: the collection run_etl computes for an endpoint is the endpoint path
\* without its leading and trailing separators, every separator inside it
\* replaced by "_", followed by "_raw"; "/tags" gives "tags_raw", "/a/b"
\* gives "a_b_raw", and "/" and the empty path give "root_raw".  It depends on
\* the path alone: a load names the collection every earlier load of the same
\* path named.
C11_CollectionName ==
    /\ Transformed =>
          /\ collection = NamedCollection(ep)
          /\ ep = <<"/", "tags">> => collection = <<"tags", "_raw">>
          /\ ep = <<"/", "a", "/", "b">> => collection = <<"a", "_", "b", "_raw">>
          /\ ep \in {<<"/">>, <<>>} => collection = <<"root", "_raw">>
    /\ (trace # <<>> /\ trace[Len(trace)].e = "load") =>
          \A m \in DOMAIN trace :
              (/\ trace[m].e = "load"
               /\ endpoints[trace[m].i] = endpoints[trace[Len(trace)].i]) =>
                  trace[m].coll = trace[Len(trace)].coll

\* C11 witness: the collection of a nested path was computed after that of
\* the path "/"
C11_Witness ==
    /\ Transformed
    /\ ep = <<"/", "a", "/", "b">>
    /\ collection = <<"a", "_", "b", "_raw">>
    /\ \E k \in DOMAIN trace :
          /\ trace[k].e = "load"
          /\ endpoints[trace[k].i] = <<"/">>
          /\ trace[k].coll = <<"root", "_raw">>

\* the step of an endpoint's processing an event belongs to: 1 extract,
\* 2 transform, 3 load, 4 what ends the endpoint (the sleep after load, or
\* the logged error)
StepOf(ev) ==
    CASE ev.e \in {"fetch", "fetched"} -> 1
      [] ev.e = "sleep" -> (IF ev.d = SLEEP_POLITE THEN 4 ELSE 1)
      [] ev.e = "transform" -> 2
      [] ev.e = "load" -> 3
      [] ev.e = "unhandled" -> 4

\* C12: the events of a run come endpoint by endpoint in list order, and for
\* each endpoint in the order extract (its fetches), transform, load: the
\* first event is the fetch of the first endpoint; an event of the same
\* endpoint follows only an earlier or equal step, and transform and load
\* happen once; the first event of the next endpoint is the fetch of its own
\* URL and follows the return of load (the sleep after it) or the logged
\* error of the endpoint before.  A batch is loaded into the collection named
\* after its own endpoint and holds documents of that endpoint.
C12_SequentialOrder ==
    /\ trace # <<>> => (trace[1].e = "fetch" /\ trace[1].i = 1 /\ trace[1].pos = 0)
    /\ \A k \in 1..(Len(trace) - 1) :
          LET a == trace[k]
              b == trace[k + 1]
          IN  \/ /\ b.i = a.i
                 /\ StepOf(a) < 4
                 /\ \/ StepOf(b) > StepOf(a)
                    \/ StepOf(b) = 1 /\ StepOf(a) = 1
                 /\ b.e = "load" => a.e = "transform"
              \/ /\ b.i = a.i + 1
                 /\ StepOf(a) = 4
                 /\ a.e = "sleep" => (k > 1 /\ trace[k - 1].e = "load")
                 /\ b.e = "fetch"
                 /\ b.pos = 0
                 /\ b.url = BaseOf \o endpoints[b.i]
    /\ \A k \in DOMAIN trace :
          trace[k].e = "load" =>
              /\ trace[k].coll = NamedCollection(endpoints[trace[k].i])
              /\ \A j \in DOMAIN trace[k].docs :
                    trace[k].docs[j].source.endpoint = endpoints[trace[k].i]

\* C12 witness: a run of two different endpoints ended with a batch inserted
\* for each, into two collections
C12_Witness ==
    /\ pc = "done"
    /\ Len(endpoints) = 2
    /\ \E k, m \in DOMAIN trace :
          /\ trace[k].e = "load" /\ trace[k].i = 1 /\ trace[k].inserted # <<>>
          /\ trace[m].e = "load" /\ trace[m].i = 2 /\ trace[m].inserted # <<>>
          /\ trace[k].coll # trace[m].coll

\* extract is running for the current endpoint
InExtract == pc \in {"extract", "fetch", "lists_loop"}

\* C13: extract never raises: whatever the fetch returned, no step of extract
\* ends in run_etl's handler of unexpected errors.
C13_ExtractNeverRaises == [][InExtract => pc' # "except"]_vars

\* the value of a key of a record, or null when the record has no such key
ValueOrNull(kv, key) == IF key \in DOMAIN kv THEN kv[key] ELSE JNull

\* C14: for /languages the documents' name and iso_code are the cleaned
\* record's name and iso6391, null when cleaning removed them: the record
\* {id:2, name:"", iso6391:null} gives a nested record without name and
\* iso6391 and a document with name and iso_code null, the record
\* {id:1, name:"English", iso6391:"en"} gives name "English" and iso_code
\* "en", and n records give n documents.
C14_LanguagesFlattening ==
    (Transformed /\ ep = <<"/", "languages">>) =>
        /\ Len(transformed) = Len(raw)
        /\ \A j \in DOMAIN transformed :
              LET doc == transformed[j]
              IN  /\ doc.name = ValueOrNull(doc.data.kv, "name")
                  /\ doc.iso_code = ValueOrNull(doc.data.kv, "iso6391")
                  /\ raw[j] = R_blank =>
                        /\ DOMAIN doc.data.kv = {"id"}
                        /\ doc.name = JNull
                        /\ doc.iso_code = JNull
                  /\ raw[j] = R_en =>
                        /\ doc.data = R_en
                        /\ doc.name = JStr("English")
                        /\ doc.iso_code = JStr("en")

\* C14 witness: transform returned for the two records of the scenario
C14_Witness ==
    /\ Transformed
    /\ ep = <<"/", "languages">>
    /\ raw = <<R_en, R_blank>>
    /\ Len(transformed) = 2
    /\ transformed[2].iso_code = JNull

\* C15: for an endpoint other than /lists, extract returns the fetched value
\* itself when it is a sequence, the sequence under its 'data' key when it is
\* a mapping that has one, the one-element sequence holding it when it is any
\* other mapping, and the empty sequence for any other shape.
C15_ShapeHandling ==
    (Extracted /\ ep # EP_LISTS) =>
        LET d == TopReturn(idx)
        IN  CASE d.t = "list" -> raw = d.items
              [] d.t = "dict" /\ "data" \in DOMAIN d.kv /\ d.kv["data"].t = "list" ->
                    raw = d.kv["data"].items
              [] d.t = "dict" /\ ~("data" \in DOMAIN d.kv /\ d.kv["data"].t = "list") ->
                    raw = <<d>>
              [] OTHER -> raw = <<>>

\* C15 witness: extract returned the sequence nested under 'data'
C15_Witness ==
    /\ Extracted
    /\ ep = <<"/", "tags">>
    /\ TopReturn(idx) = JDict([data |-> JList(<<R_noid>>)])
    /\ raw = <<R_noid>>

\* C16: every attempt of safe_get_json is made with the configured timeout:
\* the value of the environment's REQUEST_TIMEOUT when it is set, 10 when it
\* is not.
C16_ConfiguredTimeout ==
    call.attempt > 0 => call.timeout = REQUEST_TIMEOUT_from_env(env)

\* C17: between every two consecutive endpoints run_etl sleeps 0.2 seconds:
\* the first fetch of every endpoint but the first comes right after the
\* polite sleep that followed the endpoint before it, also when the
\* processing of that endpoint ended with an error.
C17_PoliteDelayBetweenEndpoints ==
    \A k \in DOMAIN trace :
        (trace[k].e = "fetch" /\ trace[k].pos = 0 /\ trace[k].i > 1) =>
            /\ trace[k - 1].e = "sleep"
            /\ trace[k - 1].d = SLEEP_POLITE
            /\ trace[k - 1].i = trace[k].i - 1

\* the list view an extract of /lists works on: the fetched sequence, or no
\* item when the fetched value is no sequence
ListView(i) == IF TopReturn(i).t = "list" THEN TopReturn(i).items ELSE <<>>

\* the positions of the list-view items that have an identifier
WithId(view) ==
    {j \in DOMAIN view :
        view[j].t = "dict" /\ "id" \in DOMAIN view[j].kv /\ view[j].kv["id"] # JNull}

\* C18: when extract("/lists") returns, its output is as long as the list
\* view and in its order: an item without an identifier is at its position
\* unchanged and no fetch was made for it, an item with an identifier has at
\* its position what its one detail fetch (of /lists/<id>) returned or the
\* item itself, and the detail fetches were made in list order.  The fetch
\* calls of the extract number 1 plus the items with an identifier; a fetched
\* value that is no sequence gives an empty output and no detail fetch.
C18_ListsOutputAndFetchCount ==
    (Extracted /\ ep = EP_LISTS) =>
        LET view == ListView(idx)
            calls == EventsOf("fetch", idx)
            callsAt(j) == {k \in calls : trace[k].pos = j}
        IN  /\ Len(raw) = Len(view)
            /\ Cardinality(calls) = 1 + Cardinality(WithId(view))
            /\ TopReturn(idx).t # "list" => (raw = <<>> /\ Cardinality(calls) = 1)
            /\ \A j \in DOMAIN view :
                  IF j \in WithId(view)
                  THEN /\ Cardinality(callsAt(j)) = 1
                       /\ \A k \in callsAt(j) :
                             /\ trace[k].url = BaseOf \o <<"/", "lists", "/",
                                                 ToString(view[j].kv["id"].n)>>
                             /\ raw[j] \in {view[j], trace[k + 1].ret}
                  ELSE /\ callsAt(j) = {}
                       /\ raw[j] = view[j]
            /\ \A k, m \in calls : k < m => trace[k].pos < trace[m].pos

\* C18 witness: extract returned for a list view of one item with an
\* identifier and one without
C18_Witness ==
    /\ Extracted
    /\ ep = EP_LISTS
    /\ TopReturn(idx) = JList(<<L_42, L_noid>>)
    /\ Cardinality(EventsOf("fetch", idx)) = 2
    /\ raw[2] = L_noid

\* an endpoint occurrence is accounted for: load was called for it, or its
\* error was logged by run_etl
Accounted(i) == EventsOf("load", i) # {} \/ Unhandled(i)

\* C19: under every pattern of fetch failures, shape mismatches and insert
\* failures run_etl eventually returns, the loop having passed every endpoint
\* of the list, each of them loaded or logged as failed.
C19_RunTerminates ==
    <>(/\ pc = "done"
       /\ idx = Len(endpoints) + 1
       /\ \A i \in 1..Len(endpoints) : Accounted(i))

\* C19 witness: run_etl returned after an endpoint whose error it logged and
\* an endpoint whose fetch was exhausted and whose insert failed or was empty
C19_Witness ==
    /\ pc = "done"
    /\ Len(endpoints) = 2
    /\ \E i, j \in 1..Len(endpoints) :
          /\ Unhandled(i)
          /\ \E k \in EventsOf("fetched", j) : ~trace[k].ok
          /\ EventsOf("load", j) # {}
    /\ \E k \in DOMAIN trace : trace[k].e = "load" /\ trace[k].raised

\* C20: writes are all-or-nothing per endpoint occurrence.  Each occurrence
\* has at most one call of load, which gives at most one batch to insert_many;
\* when load has returned, a batch it gave holds, position by position, the
\* document of every record extract returned; and an occurrence whose error
\* run_etl logged (transform or extract raised) has no call of load, so no
\* document of it was inserted.
C20_AllOrNothingBatch ==
    /\ \A k \in DOMAIN trace :
          trace[k].e = "load" =>
              /\ Len(trace[k].inserted) <= 1
              /\ \A m \in (k + 1)..Len(trace) :
                    trace[m].i = trace[k].i => trace[m].e \notin {"load", "unhandled"}
    /\ pc = "except" => EventsOf("load", idx) = {}
    /\ pc = "polite" =>
          LET ld == trace[Len(trace)]
          IN  /\ ld.e = "load"
              /\ ld.i = idx
              /\ \A b \in DOMAIN ld.inserted :
                    /\ Len(ld.inserted[b]) = Len(raw)
                    /\ \A j \in DOMAIN raw :
                          ld.inserted[b][j] = MakeDoc(raw[j], j, ep, Len(trace) - 2)

\* C20 witness: transform raised on a record of the first endpoint, which has
\* no call of load, and the load of the second endpoint gave a batch of two
\* documents to insert_many
C20_Witness ==
    /\ pc = "polite"
    /\ idx = 2
    /\ Unhandled(1)
    /\ \E k \in EventsOf("fetched", 1) :
          /\ trace[k].pos = 0
          /\ trace[k].ret.t = "list"
          /\ \E j \in DOMAIN trace[k].ret.items : trace[k].ret.items[j].t # "dict"
    /\ EventsOf("load", 1) = {}
    /\ Len(trace[Len(trace)].inserted) = 1
    /\ Len(trace[Len(trace)].inserted[1]) = 2

====
